---- MODULE Spec2Model ----
(***************************************************************************)
(* Model of src/main.py: the dependency-graph tool.  Each algorithm of the *)
(* graph engine (build_graph_cratesio, dfs_prune_by_filter, reverse_graph, *)
(* reachable, the reverse branch of main, to_dot) is a step machine over   *)
(* its own variables; one specification per algorithm draws the inputs.    *)
(* Node names are sequences of one-character strings so that str.lower()   *)
(* and the substring test `in` are computed, not assumed.                  *)
(***************************************************************************)
EXTENDS Integers, Sequences, FiniteSets, TLC

VARIABLES
    full_g, package, flt,                   \* inputs: graph, ns.package, ns.filter
    out, p_visited, p_stack,                \* dfs_prune_by_filter
    graph, visited, b_stack, b_exc,         \* build_graph_cratesio
    fetched, skipped,                       \* (its instrumentation)
    rg, seen, dq, r_cur, enq,               \* reachable
    r, g_rev, m_pc,                         \* main, reverse branch
    dg, lines, nodes, d_pc, d_items, d_u, d_nbrs, d_todo   \* to_dot

inVars    == <<full_g, package, flt>>
pruneVars == <<out, p_visited, p_stack>>
buildVars == <<graph, visited, b_stack, b_exc, fetched, skipped>>
reachVars == <<rg, seen, dq, r_cur, enq>>
revVars   == <<r, g_rev, m_pc>>
dotVars   == <<dg, lines, nodes, d_pc, d_items, d_u, d_nbrs, d_todo>>
vars == <<inVars, pruneVars, buildVars, reachVars, revVars, dotVars>>

\* ------------------------------------------------------------- bounds ----
MaxDeps == 2      \* largest dependency set / dependency list of one node
MaxFetch == 2     \* cap of the per-node fetch counter
MaxEnq == 3       \* cap of the per-node enqueue counter

\* ------------------------------------------------------ names, strings ----
None == <<"None">>

TestNodes == { <<"A">>, <<"B", "X">>, <<"C">> }
CrateNames == { <<"a">>, <<"B", "x">>, <<"c">> }
Filters == { <<>>, <<"b">>, <<"X">> }
CrateFilters == { <<>>, <<"B">>, <<"a">> }

LowerChar(c) ==
    CASE c = "A" -> "a" [] c = "B" -> "b" [] c = "C" -> "c" [] c = "X" -> "x"
      [] OTHER -> c

\* str.lower()
Lower(s) == [i \in 1..Len(s) |-> LowerChar(s[i])]

\* `sub in s` for strings
Contains(s, sub) ==
    \E i \in 0..(Len(s) - Len(sub)) :
        \A j \in 1..Len(sub) : s[i + j] = sub[j]

\* PKG_RE: ^[a-z0-9]+([_-][a-z0-9]+)*$
PkgAlnum == {"a", "b", "c", "x"}
PkgSep == {"_", "-"}
PKG_RE(s) ==
    /\ Len(s) > 0
    /\ \A i \in 1..Len(s) : s[i] \in PkgAlnum \cup PkgSep
    /\ s[1] \in PkgAlnum /\ s[Len(s)] \in PkgAlnum
    /\ \A i \in 1..(Len(s) - 1) : ~(s[i] \in PkgSep /\ s[i + 1] \in PkgSep)

\* UPPER_RE: ^[A-Z]+$
UPPER_RE(s) ==
    /\ Len(s) > 0
    /\ \A i \in 1..Len(s) : s[i] \in {"A", "B", "C", "X"}

\* the test `flt_low and flt_low in name.lower()`
Matches(flt_low, name) == flt_low # <<>> /\ Contains(Lower(name), flt_low)

\* ------------------------------------------------------------- graphs ----
\* Graph = Dict[str, Set[str]]: a function whose domain is the set of keys
DepSets(N) == {S \in SUBSET N : Cardinality(S) <= MaxDeps}
Graphs(N) == UNION {[K -> DepSets(N)] : K \in SUBSET N}
EmptyGraph == [k \in {} |-> {}]

\* g.get(u, ())
Get(g, u) == IF u \in DOMAIN g THEN g[u] ELSE {}

\* defaultdict(set): g[u].add(v)
AddEdge(g, u, v) ==
    IF u \in DOMAIN g THEN [g EXCEPT ![u] = @ \cup {v}] ELSE g @@ (u :> {v})

Edges(g) == {<<u, v>> \in (DOMAIN g) \X (UNION {g[k] : k \in DOMAIN g}) : v \in g[u]}
Targets(g) == UNION {g[k] : k \in DOMAIN g}

Top(st) == st[Len(st)]
Pop(st) == SubSeq(st, 1, Len(st) - 1)
SetTop(st, f) == [st EXCEPT ![Len(st)] = f]

\* ------------------------------------------------ idle variable groups ----
IdleIn == full_g = EmptyGraph /\ package = <<>> /\ flt = <<>>
IdlePrune == out = EmptyGraph /\ p_visited = {} /\ p_stack = <<>>
IdleBuild ==
    /\ graph = EmptyGraph /\ visited = {} /\ b_stack = <<>>
    /\ b_exc = "none" /\ fetched = <<>> /\ skipped = {}
NoCur == [u |-> None, todo |-> {}]
IdleReach == rg = EmptyGraph /\ seen = {} /\ dq = <<>> /\ r_cur = NoCur /\ enq = <<>>
IdleRev == r = EmptyGraph /\ g_rev = EmptyGraph /\ m_pc = "idle"
IdleDot ==
    /\ dg = EmptyGraph /\ lines = <<>> /\ nodes = {} /\ d_pc = "idle"
    /\ d_items = {} /\ d_u = None /\ d_nbrs = {} /\ d_todo = {}

\* ===================================================== dfs_prune_by_filter
\* flt_low = (flt or "").lower()
prune_flt_lowMut(f) == f
prune_flt_low(f) == Lower(f)

InitPrune ==
    /\ full_g \in Graphs(TestNodes)
    /\ package \in {n \in TestNodes : UPPER_RE(n)}
    /\ flt \in Filters
    /\ out = EmptyGraph
    /\ p_visited = {}
    /\ p_stack = << [u |-> package, phase |-> "call", todo |-> {}] >>
    /\ IdleBuild /\ IdleReach /\ IdleRev /\ IdleDot

\* entry of the inner dfs(u): the two early returns, then visited.add(u)
PruneCall ==
    /\ p_stack # <<>> /\ Top(p_stack).phase = "call"
    /\ LET u == Top(p_stack).u IN
         IF u \in p_visited \/ Matches(prune_flt_low(flt), u)
         THEN /\ p_stack' = Pop(p_stack)
              /\ UNCHANGED p_visited
         ELSE /\ p_visited' = p_visited \cup {u}
              /\ p_stack' = SetTop(p_stack,
                     [u |-> u, phase |-> "loop", todo |-> Get(full_g, u)])
    /\ UNCHANGED <<out, inVars, buildVars, reachVars, revVars, dotVars>>

\* one iteration of `for v in g.get(u, ())`
PruneLoop ==
    /\ p_stack # <<>> /\ Top(p_stack).phase = "loop" /\ Top(p_stack).todo # {}
    /\ \E v \in Top(p_stack).todo :
         LET f == Top(p_stack)
             rest == [f EXCEPT !.todo = @ \ {v}] IN
         IF Matches(prune_flt_low(flt), v)
         THEN /\ p_stack' = SetTop(p_stack, rest)
              /\ UNCHANGED out
         ELSE /\ out' = AddEdge(out, f.u, v)
              /\ p_stack' = Append(SetTop(p_stack, rest),
                     [u |-> v, phase |-> "call", todo |-> {}])
    /\ UNCHANGED <<p_visited, inVars, buildVars, reachVars, revVars, dotVars>>

\* the for loop is exhausted: dfs(u) returns
PruneReturn ==
    /\ p_stack # <<>> /\ Top(p_stack).phase = "loop" /\ Top(p_stack).todo = {}
    /\ p_stack' = Pop(p_stack)
    /\ UNCHANGED <<out, p_visited, inVars, buildVars, reachVars, revVars, dotVars>>

NextPrune == PruneCall \/ PruneLoop \/ PruneReturn
SpecPrune == InitPrune /\ [][NextPrune]_vars

\* dfs(start) has returned: `out` is the function's result
PruneDone == p_stack = <<>>

\* the claim's own reading of "node n matches filter f"
NameMatches(n, f) == Contains(Lower(n), Lower(f))

\* C2: for a non-empty filter, no key and no edge target of the graph
\* returned by dfs_prune_by_filter has a lowercase name containing the
\* lowercase filter; in particular a matching start is not a key.
C2_PruneExcludesFiltered ==
    (PruneDone /\ flt # <<>>) =>
        /\ \A k \in DOMAIN out : ~NameMatches(k, flt)
        /\ \A v \in Targets(out) : ~NameMatches(v, flt)

\* a run that returned a non-empty graph although the source graph holds an
\* edge from an output key to a filter-matching node
C2_Witness ==
    /\ PruneDone /\ flt # <<>> /\ DOMAIN out # {}
    /\ \E k \in DOMAIN out : \E v \in Get(full_g, k) : NameMatches(v, flt)

\* C4: every node visited by the traversal (the start node, when the filter
\* lets it be visited, and every edge endpoint of the output) is a key of the
\* graph dfs_prune_by_filter returns, even with an empty dependency set.
C4_PruneKeyPresence ==
    PruneDone => (p_visited \cup Targets(out)) \subseteq DOMAIN out

\* ================================================================ reachable
\* seen: Set[str] = set()
InitSeenMut(start) == {start}
InitSeen(start) == {}

\* the test `v not in seen`
NotSeenMut(v, s) == TRUE
NotSeen(v, s) == v \notin s

\* entry of reachable(g, start): seen = set(); dq = deque([start]).
\* enq counts, per node, how often the node was put on the worklist.
ReachEntry(g, start) ==
    /\ rg' = g
    /\ seen' = InitSeen(start)
    /\ dq' = <<start>>
    /\ r_cur' = NoCur
    /\ enq' = [n \in TestNodes |-> IF n = start THEN 1 ELSE 0]

InitReach ==
    /\ full_g \in Graphs(TestNodes)
    /\ package \in TestNodes
    /\ flt = <<>>
    /\ rg = full_g
    /\ seen = InitSeen(package)
    /\ dq = <<package>>
    /\ r_cur = NoCur
    /\ enq = [n \in TestNodes |-> IF n = package THEN 1 ELSE 0]
    /\ IdlePrune /\ IdleBuild /\ IdleRev /\ IdleDot

\* `while dq: u = dq.popleft()` and the start of `for v in g.get(u, ())`
ReachPop ==
    /\ r_cur.u = None /\ dq # <<>>
    /\ r_cur' = [u |-> Head(dq), todo |-> Get(rg, Head(dq))]
    /\ dq' = Tail(dq)
    /\ UNCHANGED <<rg, seen, enq, inVars, pruneVars, buildVars, revVars, dotVars>>

\* one iteration of the for loop
ReachScan ==
    /\ r_cur.u # None /\ r_cur.todo # {}
    /\ \E v \in r_cur.todo :
         /\ r_cur' = [r_cur EXCEPT !.todo = @ \ {v}]
         /\ IF NotSeen(v, seen)
            THEN /\ enq[v] < MaxEnq
                 /\ seen' = seen \cup {v}
                 /\ dq' = Append(dq, v)
                 /\ enq' = [enq EXCEPT ![v] = @ + 1]
            ELSE UNCHANGED <<seen, dq, enq>>
    /\ UNCHANGED <<rg, inVars, pruneVars, buildVars, revVars, dotVars>>

\* the for loop is exhausted: back to the `while dq` test
ReachEndFor ==
    /\ r_cur.u # None /\ r_cur.todo = {}
    /\ r_cur' = NoCur
    /\ UNCHANGED <<rg, seen, dq, enq, inVars, pruneVars, buildVars, revVars, dotVars>>

NextReach == ReachPop \/ ReachScan \/ ReachEndFor
SpecReach == InitReach /\ [][NextReach]_vars

\* `while dq` found the worklist empty: `return seen`
ReachDone == r_cur.u = None /\ dq = <<>>

\* nodes at the end of a path of exactly k >= 1 edges of g that starts in x
RECURSIVE PathEnds(_, _, _)
PathEnds(g, x, k) ==
    IF k = 1 THEN Get(g, x)
    ELSE UNION {Get(g, m) : m \in PathEnds(g, x, k - 1)}

\* nodes reached from x by a path of one or more edges (a shortest such path
\* has at most as many edges as there are nodes)
PathReach(g, x) ==
    UNION {PathEnds(g, x, k) : k \in 1..Cardinality(DOMAIN g \cup Targets(g) \cup {x})}

\* C6: reachable(G, x) returns exactly the nodes reached from x by a path of
\* one or more edges of G; x itself is returned iff a cycle passes through x.
C6_ReachableExact ==
    (rg = full_g /\ ReachDone) =>
        /\ seen = PathReach(full_g, package)
        /\ (package \in seen) <=> (package \in PathReach(full_g, package))

\* a finished run on a graph where the start lies on a cycle of length >= 2
\* and some node is not reachable
C6_Witness ==
    /\ rg = full_g /\ ReachDone /\ m_pc = "idle"
    /\ package \in seen /\ package \notin Get(full_g, package)
    /\ seen # TestNodes

\* C10 (as stated): every node, start included, is put on the worklist at
\* most once during a run of reachable.
C10_EnqueuedAtMostOnce ==
    \A n \in DOMAIN enq : enq[n] <= 1

\* C10 (amended): every node other than start is put on the worklist at most
\* once; start is put on it at most twice, the second time only when a cycle
\* leads back to it (it is then a member of seen).
C10_EnqueuedOnceExceptStart ==
    \A n \in DOMAIN enq :
        /\ n # package => enq[n] <= 1
        /\ enq[n] <= 2
        /\ enq[n] = 2 => (n = package /\ package \in seen)

\* a finished run in which start was put on the worklist a second time and
\* another node exactly once
C10_Witness ==
    /\ m_pc = "idle" /\ rg = full_g /\ ReachDone /\ DOMAIN enq # {}
    /\ enq[package] = 2
    /\ \E n \in DOMAIN enq : n # package /\ enq[n] = 1

\* ============================================================ reverse_graph
reverse_graphMut(g) ==
    [v \in Targets(g) |-> {u \in DOMAIN g : v \in g[u]}]
\* r[v].add(u) for every edge u -> v, and r.setdefault(u, set()) for every key
reverse_graph(g) ==
    [v \in DOMAIN g \cup Targets(g) |-> {u \in DOMAIN g : v \in g[u]}]

\* ===================================================== main, reverse branch
\* the nested loops that fill g_rev from r and depends_on_me
GRev(rv, depends_on_me, pkg) ==
    LET kept(v) == {u \in Get(rv, v) : u \in depends_on_me \/ u = pkg} IN
    [v \in {w \in depends_on_me : kept(w) # {}} |-> kept(v)]

InitReverse ==
    /\ full_g \in Graphs(TestNodes)
    /\ package \in {n \in TestNodes : UPPER_RE(n)}
    /\ flt = <<>>
    /\ r = EmptyGraph /\ g_rev = EmptyGraph /\ m_pc = "reverse"
    /\ IdlePrune /\ IdleBuild /\ IdleReach /\ IdleDot

\* r = reverse_graph(full_g), then the call reachable(r, ns.package)
MainReverse ==
    /\ m_pc = "reverse"
    /\ r' = reverse_graph(full_g)
    /\ ReachEntry(reverse_graph(full_g), package)
    /\ m_pc' = "reachable"
    /\ UNCHANGED <<g_rev, inVars, pruneVars, buildVars, dotVars>>

\* depends_on_me = the returned set; g_rev is filled
MainReconstruct ==
    /\ m_pc = "reachable" /\ ReachDone
    /\ g_rev' = GRev(r, seen, package)
    /\ m_pc' = "done"
    /\ UNCHANGED <<r, inVars, pruneVars, buildVars, reachVars, dotVars>>

NextReverse ==
    MainReverse \/ ReachPop \/ ReachScan \/ ReachEndFor \/ MainReconstruct
SpecReverse == InitReverse /\ [][NextReverse]_vars

\* the dependency relationships (u depends on v) that g_rev represents: g_rev
\* holds the edge v -> u for the relationship u -> v of the source graph
Represented(gr) == {<<e[2], e[1]>> : e \in Edges(gr)}

\* C5: g_rev represents exactly the dependency relationships of G whose two
\* endpoints lie in D \cup {t}, where D = reachable(reverse_graph(G), t),
\* those ending at t included.
C5_ReverseSubgraphInduced ==
    m_pc = "done" =>
        Represented(g_rev) =
            {e \in Edges(full_g) : e[1] \in seen \cup {package}
                                   /\ e[2] \in seen \cup {package}}

\* C7: reverse_graph(reverse_graph(G)) has exactly the edges of G, and every
\* key of G is a key of reverse_graph(G).
C7_DoubleReverse ==
    m_pc \in {"reachable", "done"} =>
        /\ Edges(reverse_graph(r)) = Edges(full_g)
        /\ DOMAIN full_g \subseteq DOMAIN r

\* reverse_graph was applied to a graph with an edge to a node that is not a
\* key, and with a key that has no dependencies and is nobody's dependency
C7_Witness ==
    /\ m_pc = "done"
    /\ Targets(full_g) \ DOMAIN full_g # {}
    /\ \E k \in DOMAIN full_g : full_g[k] = {} /\ k \notin Targets(full_g)
    /\ \E k \in DOMAIN r : r[k] = {}

\* =================================================================== to_dot
\* a line of the output: <<kind, first name, second name>>
DotOpen == <<"digraph deps {", None, None>>
DotAttrs == <<"rankdir=LR; node [shape=box, fontsize=10];", None, None>>
DotClosing == <<"}", None, None>>
ArrowLine(u, v) == <<"->", u, v>>
NodeLine(n) == <<"node", n, None>>

\* the test `n not in g and not any(n in s for s in g.values())`
Standalone(n, g) == n \notin DOMAIN g /\ ~(\E k \in DOMAIN g : n \in g[k])

\* entry of to_dot(g): the two header lines and nodes = set(g.keys())
InitDot ==
    /\ dg \in Graphs(TestNodes)
    /\ lines = <<DotOpen, DotAttrs>>
    /\ nodes = DOMAIN dg
    /\ d_pc = "items"
    /\ d_items = DOMAIN dg /\ d_u = None /\ d_nbrs = {} /\ d_todo = {}
    /\ IdleIn /\ IdlePrune /\ IdleBuild /\ IdleReach /\ IdleRev

\* next (u, nbrs) of `for u, nbrs in g.items()`: nodes.update(nbrs)
DotItem ==
    /\ d_pc = "items" /\ d_nbrs = {} /\ d_items # {}
    /\ \E u \in d_items :
         /\ d_u' = u
         /\ d_nbrs' = dg[u]
         /\ nodes' = nodes \cup dg[u]
         /\ d_items' = d_items \ {u}
    /\ UNCHANGED <<dg, lines, d_pc, d_todo,
                   inVars, pruneVars, buildVars, reachVars, revVars>>

\* one iteration of `for v in nbrs`: the arrow statement
DotEdge ==
    /\ d_pc = "items" /\ d_nbrs # {}
    /\ \E v \in d_nbrs :
         /\ lines' = Append(lines, ArrowLine(d_u, v))
         /\ d_nbrs' = d_nbrs \ {v}
    /\ UNCHANGED <<dg, nodes, d_pc, d_items, d_u, d_todo,
                   inVars, pruneVars, buildVars, reachVars, revVars>>

\* the first loop is exhausted; `for n in nodes` starts
DotNodes ==
    /\ d_pc = "items" /\ d_nbrs = {} /\ d_items = {}
    /\ d_pc' = "nodes"
    /\ d_todo' = nodes
    /\ UNCHANGED <<dg, lines, nodes, d_items, d_u, d_nbrs,
                   inVars, pruneVars, buildVars, reachVars, revVars>>

\* one iteration of `for n in nodes`
DotNode ==
    /\ d_pc = "nodes" /\ d_todo # {}
    /\ \E n \in d_todo :
         /\ d_todo' = d_todo \ {n}
         /\ lines' = IF Standalone(n, dg) THEN Append(lines, NodeLine(n)) ELSE lines
    /\ UNCHANGED <<dg, nodes, d_pc, d_items, d_u, d_nbrs,
                   inVars, pruneVars, buildVars, reachVars, revVars>>

\* lines.append("}") and the join
DotClose ==
    /\ d_pc = "nodes" /\ d_todo = {}
    /\ lines' = Append(lines, DotClosing)
    /\ d_pc' = "done"
    /\ UNCHANGED <<dg, nodes, d_items, d_u, d_nbrs, d_todo,
                   inVars, pruneVars, buildVars, reachVars, revVars>>

NextDot == DotItem \/ DotEdge \/ DotNodes \/ DotNode \/ DotClose
SpecDot == InitDot /\ [][NextDot]_vars

Occurrences(l) == Cardinality({i \in 1..Len(lines) : lines[i] = l})
Isolated(n, g) ==
    /\ n \in DOMAIN g \cup Targets(g)
    /\ Get(g, n) = {}
    /\ n \notin Targets(g)

\* C8: the text of to_dot(g) holds exactly one arrow statement per edge of g
\* and a standalone declaration of every node of g that has no incoming and
\* no outgoing edge.
C8_DotComplete ==
    d_pc = "done" =>
        /\ \A u \in TestNodes : \A v \in TestNodes :
              Occurrences(ArrowLine(u, v)) = IF <<u, v>> \in Edges(dg) THEN 1 ELSE 0
        /\ \A n \in TestNodes :
              Isolated(n, dg) => Occurrences(NodeLine(n)) = 1

\* ===================================================== build_graph_cratesio
\* what urlopen(...) / r.read() / json.loads(...) does for one GET
Responses == {"json", "HTTPError", "URLError", "JSONDecodeError", "timeout"}

\* http_get_json: the exception class that leaves the function, "none" when
\* it returns.  HTTPError, URLError and JSONDecodeError are caught and handed
\* to fail(), which raises SystemExit; any other error leaves uncaught.
http_get_json(resp) ==
    CASE resp = "json" -> "none"
      [] resp \in {"HTTPError", "URLError", "JSONDecodeError"} -> "SystemExit"
      [] OTHER -> "Exception"

\* the crate metadata document, as far as crates_latest_version reads it
Metas == {"newest_version", "versions", "no_versions"}

\* crates_latest_version: the exception class that leaves it, or "none"
crates_latest_version(resp, meta) ==
    IF http_get_json(resp) # "none" THEN http_get_json(resp)
    ELSE IF meta = "no_versions" THEN "SystemExit" ELSE "none"

\* one entry of the "dependencies" array
DepEntries ==
    {e \in [crate_id : CrateNames, optional : BOOLEAN, kind : {"normal", "dev", "null"}] :
        e.optional => e.kind = "normal"}
DepArrays == UNION {[1..k -> DepEntries] : k \in 0..MaxDeps}

\* crates_direct_deps: the crate ids of the non-optional entries of kind
\* "normal" (a missing kind counts as "normal"), in the order of the array
RECURSIVE crates_direct_deps(_)
crates_direct_deps(arr) ==
    IF arr = <<>> THEN <<>>
    ELSE LET d == Head(arr)
             kind == IF d.kind = "null" THEN "normal" ELSE d.kind IN
         IF d.optional \/ kind # "normal"
         THEN crates_direct_deps(Tail(arr))
         ELSE <<d.crate_id>> \o crates_direct_deps(Tail(arr))

\* the clause `except Exception`: SystemExit is not a subclass of Exception
CaughtByExceptException(exc) == exc = "Exception"

\* flt_low = (flt or "").lower()
build_flt_lowMut(f) == f
build_flt_low(f) == Lower(f)

\* visited.add(node)
VisitedAddMut(vis, node) == vis
VisitedAdd(vis, node) == vis \cup {node}

InitBuild ==
    /\ package \in {n \in CrateNames : PKG_RE(n)}
    /\ flt \in CrateFilters
    /\ full_g = EmptyGraph
    /\ graph = EmptyGraph
    /\ visited = {}
    /\ b_stack = << [node |-> package, phase |-> "call", deps |-> <<>>] >>
    /\ b_exc = "none"
    /\ fetched = [n \in CrateNames |-> 0]
    /\ skipped = {}
    /\ IdlePrune /\ IdleReach /\ IdleRev /\ IdleDot

\* entry of the inner dfs(node): the two early returns, then visited.add
DfsCall ==
    /\ b_stack # <<>> /\ Top(b_stack).phase = "call"
    /\ LET node == Top(b_stack).node IN
         IF Matches(build_flt_low(flt), node) \/ node \in visited
         THEN /\ b_stack' = Pop(b_stack)
              /\ UNCHANGED visited
         ELSE /\ visited' = VisitedAdd(visited, node)
              /\ b_stack' = SetTop(b_stack, [Top(b_stack) EXCEPT !.phase = "try"])
    /\ UNCHANGED <<graph, b_exc, fetched, skipped,
                   inVars, pruneVars, reachVars, revVars, dotVars>>

\* an exception of class exc leaves the try block: `except Exception: return`
\* ends this dfs call; any other class unwinds every dfs frame and leaves
\* build_graph_cratesio
Raise(exc) ==
    IF CaughtByExceptException(exc)
    THEN /\ b_stack' = Pop(b_stack)
         /\ UNCHANGED b_exc
    ELSE /\ b_stack' = <<>>
         /\ b_exc' = exc

\* the try block: crates_latest_version(node), crates_direct_deps(node, ver)
DfsTry ==
    /\ b_stack # <<>> /\ Top(b_stack).phase = "try"
    /\ LET node == Top(b_stack).node IN
       /\ fetched[node] < MaxFetch
       /\ fetched' = [fetched EXCEPT ![node] = @ + 1]
       /\ \/ \E resp1 \in Responses, meta \in Metas :
               /\ crates_latest_version(resp1, meta) # "none"
               /\ Raise(crates_latest_version(resp1, meta))
          \/ \E resp2 \in Responses :
               /\ http_get_json(resp2) # "none"
               /\ Raise(http_get_json(resp2))
          \/ \E arr \in DepArrays :
               /\ b_stack' = SetTop(b_stack,
                      [node |-> node, phase |-> "loop", deps |-> crates_direct_deps(arr)])
               /\ UNCHANGED b_exc
    /\ UNCHANGED <<graph, visited, skipped,
                   inVars, pruneVars, reachVars, revVars, dotVars>>

\* one iteration of `for dep, _req, _kind in deps`
DfsLoop ==
    /\ b_stack # <<>> /\ Top(b_stack).phase = "loop" /\ Top(b_stack).deps # <<>>
    /\ LET f == Top(b_stack)
           dep == Head(f.deps)
           rest == [f EXCEPT !.deps = Tail(@)] IN
         IF Matches(build_flt_low(flt), dep)
         THEN /\ b_stack' = SetTop(b_stack, rest)
              /\ skipped' = skipped \cup {dep}
              /\ UNCHANGED graph
         ELSE /\ graph' = AddEdge(graph, f.node, dep)
              /\ UNCHANGED skipped
              /\ IF dep \in visited
                 THEN b_stack' = SetTop(b_stack, rest)
                 ELSE b_stack' = Append(SetTop(b_stack, rest),
                          [node |-> dep, phase |-> "call", deps |-> <<>>])
    /\ UNCHANGED <<visited, b_exc, fetched,
                   inVars, pruneVars, reachVars, revVars, dotVars>>

\* the for loop is exhausted: dfs(node) returns
DfsReturn ==
    /\ b_stack # <<>> /\ Top(b_stack).phase = "loop" /\ Top(b_stack).deps = <<>>
    /\ b_stack' = Pop(b_stack)
    /\ UNCHANGED <<graph, visited, b_exc, fetched, skipped,
                   inVars, pruneVars, reachVars, revVars, dotVars>>

NextBuild == DfsCall \/ DfsTry \/ DfsLoop \/ DfsReturn
SpecBuild == InitBuild /\ [][NextBuild]_vars
\* the run is sequential and nothing suspends it: a step that can be taken is taken
SpecBuildFair == SpecBuild /\ WF_vars(NextBuild)

\* dfs(root) is over: the builder returned `graph`, or an exception left it
BuildOver == b_stack = <<>>
BuildReturned == b_stack = <<>> /\ b_exc = "none"

\* C1: whatever makes the registry fetch of a node fail, no error leaves the
\* builder: the node is a leaf and the build goes on to return a graph.
C1_FetchFailureAbsorbed == b_exc = "none"

\* C3: with a non-empty filter the graph under construction never holds a
\* filter-matching node, as a key or in a dependency set, and such a node is
\* never fetched.
C3_BuildExcludesFiltered ==
    (DOMAIN fetched # {} /\ flt # <<>>) =>
        /\ \A k \in DOMAIN graph \cup Targets(graph) : ~NameMatches(k, flt)
        /\ \A n \in DOMAIN fetched : fetched[n] > 0 => ~NameMatches(n, flt)

\* the builder returned a non-empty graph after the registry named a
\* filter-matching dependency
C3_Witness ==
    /\ BuildReturned /\ flt # <<>> /\ DOMAIN graph # {}
    /\ \E d \in skipped : NameMatches(d, flt)

\* C9: the builder terminates and expands (fetches) every node at most once.
C9_TerminatesFetchOnce ==
    /\ <>BuildOver
    /\ [](\A n \in DOMAIN fetched : fetched[n] <= 1)

\* the builder returned a graph with a cycle of two or more nodes, having fetched a node that
\* stayed a leaf
C9_Witness ==
    /\ BuildReturned
    /\ \E k \in DOMAIN graph : k \in PathReach(graph, k) /\ k \notin graph[k]
    /\ \E n \in visited : fetched[n] = 1 /\ n \notin DOMAIN graph

====
